---- MODULE Spec2Model ----
(***************************************************************************)
(* A model of src/src/nlp/nlp.py: the spaCy-backed nlp module of omoide.   *)
(*                                                                         *)
(* The module keeps two process-wide engine handles (nlp, nlp_small), a    *)
(* CACHE flag and the cache directory ".nlp_cache/".  Its operations are   *)
(* the module body run at import (startup), load_model, tokenize, analyze  *)
(* and postprocess.                                                        *)
(*                                                                         *)
(* Spec         one interpreter thread; every call is one atomic step.     *)
(* SpecThreads  NumThreads threads of one process; a call is split at the  *)
(*              points where the interpreter can switch threads.           *)
(***************************************************************************)
EXTENDS Integers, Sequences, FiniteSets, TLC

(***************************************************************************)
(* Bounds of the model.                                                    *)
(***************************************************************************)
\* calls made to one process (one import of the module)
MaxCalls == 2
\* processes started one after the other on the same working directory
MaxRuns == 2
\* length of the list given to a batch call
MaxBatch == 2
\* threads calling into the module in SpecThreads
NumThreads == 2

VARIABLES
    CACHE,        \* line 18: the module global CACHE
    LAZY,         \* line 21: truthiness of NLP_LAZY as read at import
    phase,        \* "ready": the import completed; "dead": the import raised
    nlp,          \* the module global nlp
    nlp_small,    \* the module global nlp_small
    cache_dir,    \* the path ".nlp_cache/" on disk: "absent" or "dir"
    entries,      \* the entry file of each text under the cache directory
    run,          \* number of the running process
    nCalls,       \* calls made to the running process
    loadCalls,    \* invocations of load_model in the running process
    loadsDone,    \* invocations of load_model that returned
    loadFails,    \* invocations of load_model that raised
    last,         \* what the most recent call did and returned
    strOk,        \* per text: analyze(T) calls on the string T that returned
    engineOk,     \* per text: successful invocations of the full engine on T
    fresh,        \* the cache held no entry when the running process started
    dir0,         \* the cache directory path as the environment left it:
                  \* before the running process started, or removed since
    seen,         \* results analyze(T) returned so far, by cache situation
    pc,           \* SpecThreads: each thread's position in its call
    cur           \* SpecThreads: each thread's call in progress

vars == <<CACHE, LAZY, phase, nlp, nlp_small, cache_dir, entries, run, nCalls,
          loadCalls, loadsDone, loadFails, last, strOk, engineOk, fresh, dir0,
          seen, pc, cur>>

(***************************************************************************)
(* Values.                                                                 *)
(***************************************************************************)
\* what os.environ.get returns: "None" when the variable is not set, else its text
EnvValues == {"None", "", "0"}

\* bool(x) of what os.environ.get returned: None and "" are false, any other
\* string is true, "0" too
Truthy(v) == v \notin {"None", ""}

\* an engine handle: the pipeline spacy.load returned, id telling one loaded
\* object from another
Handle(name, id) == [model |-> name, id |-> id]
\* Python's None as the value of a handle
None == [model |-> "None", id |-> 0]
\* a global name not bound yet (reading it raises NameError)
Unbound == [model |-> "unbound", id |-> 0]

\* the texts given to analyze and tokenize
Texts == {"", "neko ga suki da"}

\* the lists given to the batch form of analyze and tokenize
Batches == UNION {[1..n -> Texts] : n \in 0..MaxBatch}

\* what stands at a text's entry file path
EntryStates == {"absent", "garbage"}

Threads == 1..NumThreads

\* the argument of analyze and tokenize: one string, or a list of strings
Args ==
    {[isStr |-> TRUE, items |-> <<T>>] : T \in Texts}
        \cup {[isStr |-> FALSE, items |-> b] : b \in Batches}

\* isinstance(docs, str)
IsStr(docs) == docs.isStr

(***************************************************************************)
(* The engines.  spaCy is outside the module: a loaded pipeline, called on  *)
(* a text, gives a Doc, a sequence of tokens.  A token has its text, pos_,  *)
(* lemma_ and head; head is a token of the same Doc (here: its position in  *)
(* the Doc, from 1), and the root of the parse is its own head.  The        *)
(* engines are deterministic: the Doc depends on the text alone.           *)
(***************************************************************************)
Tok(t, p, l, h) == [text |-> t, pos_ |-> p, lemma_ |-> l, head |-> h]

\* nlp(T), and the Doc nlp.pipe gives for T: ja_core_news_lg
FullDoc(T) ==
    CASE T = "" -> <<>>
      [] T = "neko ga suki da" ->
            <<Tok("neko", "NOUN", "neko", 3), Tok("ga", "ADP", "ga", 1),
              Tok("suki", "ADJ", "suki", 4), Tok("da", "AUX", "da", 4)>>

\* nlp_small(T), and the Doc nlp_small.pipe gives for T: ja_core_news_sm, the
\* same tokenizer with a smaller tagger and parser
SmallDoc(T) ==
    [k \in 1..Len(FullDoc(T)) |->
        Tok(FullDoc(T)[k].text, "X", FullDoc(T)[k].text, k)]

\* token.i: the index of a token in its Doc, from 0; p is its position from 1
TokenI(p) == p - 1

\* a mutant of postprocess: heads given as positions from 1
postprocess_OneBased(doc) ==
    <<[k \in 1..Len(doc) |-> doc[k].text],
      [k \in 1..Len(doc) |-> doc[k].pos_],
      [k \in 1..Len(doc) |-> doc[k].lemma_],
      [k \in 1..Len(doc) |-> doc[k].head]>>

\* lines 44-50
postprocess(doc) ==
    LET words == [k \in 1..Len(doc) |-> doc[k].text]
        pos_tags == [k \in 1..Len(doc) |-> doc[k].pos_]
        lemmas == [k \in 1..Len(doc) |-> doc[k].lemma_]
        deps == [k \in 1..Len(doc) |-> TokenI(doc[k].head)]
    IN  <<words, pos_tags, lemmas, deps>>

(***************************************************************************)
(* load_model and the module body.                                         *)
(***************************************************************************)
\* what spacy.load does in one run of load_model: both loads succeed, the
\* first raises, or the second raises
LoadOutcomes == {"ok", "fail_lg", "fail_sm"}

\* lines 13-16.  n, s: the globals nlp and nlp_small before the call; id: the
\* identity of the objects this run loads.  An assignment made before a
\* raise stays.
load_model(n, s, id, lo) ==
    [nlp |-> IF lo = "fail_lg" THEN n ELSE Handle("ja_core_news_lg", id),
     nlp_small |-> IF lo = "ok" THEN Handle("ja_core_news_sm", id) ELSE s,
     raised |-> lo # "ok"]

\* a mutant of EagerLoad: the module loads at import whatever NLP_LAZY is
EagerLoad_Always(lazyEnv) == TRUE

\* line 21: the module loads at import unless NLP_LAZY is set
EagerLoad(lazyEnv) == ~Truthy(lazyEnv)

\* what load_model can do at import; it is not run in lazy mode
ImportLoadChoices(lazyEnv) == IF EagerLoad(lazyEnv) THEN LoadOutcomes ELSE {"ok"}

\* a mutant of MakeCacheDir: the directory is never made
MakeCacheDir_Never(cache, dir) == dir

\* a mutant of MakeCacheDir: the directory is made whatever CACHE is
MakeCacheDir_Always(cache, dir) == "dir"

\* lines 19-20: Path(".nlp_cache/").mkdir(exist_ok=True) when CACHE
MakeCacheDir(cache, dir) == IF cache THEN "dir" ELSE dir

\* lines 18-25: the module body, run once when a process imports the module.
\* dir: the cache directory path before the import.
ModuleBody(cacheEnv, lazyEnv, lo, dir) ==
    LET cache == Truthy(cacheEnv)
        ld == load_model(Unbound, Unbound, 1, lo)
    IN  IF EagerLoad(lazyEnv)
        THEN [CACHE |-> cache, LAZY |-> Truthy(lazyEnv),
              cache_dir |-> MakeCacheDir(cache, dir),
              nlp |-> ld.nlp, nlp_small |-> ld.nlp_small,
              phase |-> IF ld.raised THEN "dead" ELSE "ready",
              loadCalls |-> 1,
              loadsDone |-> IF ld.raised THEN 0 ELSE 1,
              loadFails |-> IF ld.raised THEN 1 ELSE 0]
        ELSE [CACHE |-> cache, LAZY |-> Truthy(lazyEnv),
              cache_dir |-> MakeCacheDir(cache, dir),
              nlp |-> None, nlp_small |-> None,
              phase |-> "ready",
              loadCalls |-> 0, loadsDone |-> 0, loadFails |-> 0]

(***************************************************************************)
(* The calls.                                                              *)
(***************************************************************************)
\* a mutant of NeedsLoad: every call loads
NeedsLoad_Always(h) == TRUE

\* a mutant of NeedsLoad: the guard also waits for a load in progress
NeedsLoad_Locked(h) ==
    h = None /\ \A t \in Threads : pc[t] \notin {"load_lg", "load_sm"}

\* lines 29 and 37: the guard of the lazy load, on the handle the call uses
NeedsLoad(h) == h = None

\* what load_model can do when the guard on h asks for it; it is not run
\* otherwise
LoadChoices(h) == IF NeedsLoad(h) THEN LoadOutcomes ELSE {"ok"}

\* a mutant of EnsureLoaded: an exception of load_model is swallowed and the
\* call goes on
EnsureLoaded_Swallows(h, lo) ==
    IF h = None
    THEN LET ld == load_model(nlp, nlp_small, loadCalls + 1, lo)
         IN  [nlp |-> ld.nlp, nlp_small |-> ld.nlp_small,
              loads |-> 1, raised |-> FALSE]
    ELSE [nlp |-> nlp, nlp_small |-> nlp_small, loads |-> 0, raised |-> FALSE]

\* lines 29-30 and 37-38: load_model if the guard asks for it.  The globals
\* after it, and whether it was invoked and raised.
EnsureLoaded(h, lo) ==
    IF NeedsLoad(h)
    THEN LET ld == load_model(nlp, nlp_small, loadCalls + 1, lo)
         IN  [nlp |-> ld.nlp, nlp_small |-> ld.nlp_small,
              loads |-> 1, raised |-> ld.raised]
    ELSE [nlp |-> nlp, nlp_small |-> nlp_small, loads |-> 0, raised |-> FALSE]

\* the texts an engine was invoked on when it is given items in order and
\* raises on the failAt-th of them (failAt = 0: it raises on none)
Invoked(items, failAt) ==
    IF failAt = 0 THEN items ELSE SubSeq(items, 1, failAt)

\* what unpickling an entry file of garbage bytes could give
GarbageResult == <<<<"?">>, <<"?">>, <<"?">>, <<7>>>>

\* a mutant of RunAnalyze: with the cache on, the entry file of a string is
\* read and what it holds is returned unchecked
RunAnalyze_ReadsEntry(docs, failAt) ==
    IF CACHE /\ IsStr(docs) /\ entries[docs.items[1]] = "garbage"
    THEN [outcome |-> "ok", ret |-> GarbageResult, engine |-> <<>>, small |-> <<>>]
    ELSE [outcome |-> IF failAt = 0 THEN "ok" ELSE "AnalysisError",
          ret |-> IF failAt # 0 THEN <<>>
                  ELSE IF IsStr(docs) THEN postprocess(FullDoc(docs.items[1]))
                  ELSE [k \in 1..Len(docs.items) |->
                            postprocess(FullDoc(docs.items[k]))],
          engine |-> Invoked(docs.items, failAt),
          small |-> <<>>]

\* a mutant of RunAnalyze: with the cache on, an entry file that does not
\* deserialize makes the call raise
RunAnalyze_RaisesOnGarbage(docs, failAt) ==
    IF CACHE /\ IsStr(docs) /\ entries[docs.items[1]] = "garbage"
    THEN [outcome |-> "CacheCorruptError", ret |-> <<>>, engine |-> <<>>,
          small |-> <<>>]
    ELSE [outcome |-> IF failAt = 0 THEN "ok" ELSE "AnalysisError",
          ret |-> IF failAt # 0 THEN <<>>
                  ELSE IF IsStr(docs) THEN postprocess(FullDoc(docs.items[1]))
                  ELSE [k \in 1..Len(docs.items) |->
                            postprocess(FullDoc(docs.items[k]))],
          engine |-> Invoked(docs.items, failAt),
          small |-> <<>>]

\* a mutant of RunAnalyze: an engine failure is retried once before it is
\* raised
RunAnalyze_Retries(docs, failAt) ==
    [outcome |-> IF failAt = 0 THEN "ok" ELSE "AnalysisError",
     ret |-> IF failAt # 0 THEN <<>>
             ELSE IF IsStr(docs) THEN postprocess(FullDoc(docs.items[1]))
             ELSE [k \in 1..Len(docs.items) |-> postprocess(FullDoc(docs.items[k]))],
     engine |-> IF failAt = 0 THEN docs.items
                ELSE Invoked(docs.items, failAt) \o <<docs.items[failAt]>>,
     small |-> <<>>]

\* a mutant of RunAnalyze: the results of a batch come back last first
RunAnalyze_Reversed(docs, failAt) ==
    [outcome |-> IF failAt = 0 THEN "ok" ELSE "AnalysisError",
     ret |-> IF failAt # 0 THEN <<>>
             ELSE IF IsStr(docs) THEN postprocess(FullDoc(docs.items[1]))
             ELSE [k \in 1..Len(docs.items) |->
                      postprocess(FullDoc(docs.items[Len(docs.items) + 1 - k]))],
     engine |-> Invoked(docs.items, failAt),
     small |-> <<>>]

\* lines 39-42: the engine nlp on docs, each Doc through postprocess
RunAnalyze(docs, failAt) ==
    [outcome |-> IF failAt = 0 THEN "ok" ELSE "AnalysisError",
     ret |-> IF failAt # 0 THEN <<>>
             ELSE IF IsStr(docs) THEN postprocess(FullDoc(docs.items[1]))
             ELSE [k \in 1..Len(docs.items) |-> postprocess(FullDoc(docs.items[k]))],
     engine |-> Invoked(docs.items, failAt),
     small |-> <<>>]

\* a mutant of RunTokenize: with the cache on, a call that repeats the one
\* before it is answered without the engine
RunTokenize_Cached(docs, failAt) ==
    LET hit == CACHE /\ last.op = "tokenize" /\ last.docs = docs
                    /\ last.outcome = "ok"
    IN  [outcome |-> IF hit \/ failAt = 0 THEN "ok" ELSE "AnalysisError",
         ret |-> IF ~hit /\ failAt # 0 THEN <<>>
                 ELSE IF IsStr(docs)
                      THEN [k \in 1..Len(SmallDoc(docs.items[1])) |->
                                SmallDoc(docs.items[1])[k].text]
                 ELSE [j \in 1..Len(docs.items) |->
                          [k \in 1..Len(SmallDoc(docs.items[j])) |->
                                SmallDoc(docs.items[j])[k].text]],
         engine |-> <<>>,
         small |-> IF hit THEN <<>> ELSE Invoked(docs.items, failAt)]

\* lines 31-34: the engine nlp_small on docs, the text of each token
RunTokenize(docs, failAt) ==
    [outcome |-> IF failAt = 0 THEN "ok" ELSE "AnalysisError",
     ret |-> IF failAt # 0 THEN <<>>
             ELSE IF IsStr(docs)
                  THEN [k \in 1..Len(SmallDoc(docs.items[1])) |->
                            SmallDoc(docs.items[1])[k].text]
             ELSE [j \in 1..Len(docs.items) |->
                      [k \in 1..Len(SmallDoc(docs.items[j])) |->
                            SmallDoc(docs.items[j])[k].text]],
     engine |-> <<>>,
     small |-> Invoked(docs.items, failAt)]

\* a load that raised ends the call before any engine is invoked
LoadRaised ==
    [outcome |-> "ModelLoadError", ret |-> <<>>, engine |-> <<>>, small |-> <<>>]

\* the cache situation a string call analyze(T) is made in: the cache is
\* off; or it is on and T's entry file holds garbage; or it is on, the file
\* is absent and analyze(T) has not returned yet in this process (cold) or
\* has (warm)
Situations == {"off", "cold", "warm", "garbage"}
Situation(T) ==
    IF ~CACHE THEN "off"
    ELSE IF entries[T] = "garbage" THEN "garbage"
    ELSE IF strOk[T] = 0 THEN "cold"
    ELSE "warm"

\* the value of via in the record of a call that no engine line was reached in
NotReached == [model |-> "not reached", id |-> 0]

\* the record of a call: what it was given, the situation it was made in,
\* what it did, how the call before it ended when that was the same
\* operation on the same argument, and via: the value of the global the
\* engine was called through (nlp in lines 40 and 42, nlp_small in lines 32
\* and 34)
CallRecord(op, docs, ld, r) ==
    [op |-> op, docs |-> docs,
     via |-> IF r.outcome = "ModelLoadError" THEN NotReached
             ELSE IF op = "analyze" THEN ld.nlp ELSE ld.nlp_small,
     prev |-> IF last.op = op /\ last.docs = docs THEN last.outcome ELSE "other",
     sit |-> IF op = "analyze" /\ IsStr(docs) THEN Situation(docs.items[1])
             ELSE "none",
     outcome |-> r.outcome, ret |-> r.ret,
     loads |-> ld.loads, engine |-> r.engine, small |-> r.small]

NoCall ==
    [op |-> "none", docs |-> [isStr |-> FALSE, items |-> <<>>],
     via |-> NotReached,
     prev |-> "other",
     sit |-> "none",
     outcome |-> "none", ret |-> <<>>, loads |-> 0, engine |-> <<>>,
     small |-> <<>>]

\* a thread's call in progress; id: the identity of the objects its run of
\* load_model loads
NoCur == [op |-> "none", docs |-> [isStr |-> FALSE, items |-> <<>>], id |-> 0]

\* the number of k with items[k] = T among the first n items
CountIn(items, n, T) == Cardinality({k \in 1..n : items[k] = T})

Idle == \A t \in Threads : pc[t] = "idle"

\* the bookkeeping of a finished call
Account(ld, rec) ==
    /\ nlp' = ld.nlp
    /\ nlp_small' = ld.nlp_small
    /\ nCalls' = nCalls + 1
    /\ loadCalls' = loadCalls + ld.loads
    /\ loadsDone' = loadsDone + (IF ld.loads = 1 /\ ~ld.raised THEN 1 ELSE 0)
    /\ loadFails' = loadFails + (IF ld.raised THEN 1 ELSE 0)
    /\ last' = rec
    /\ engineOk' =
            [T \in Texts |->
                engineOk[T] + CountIn(rec.engine,
                                      IF rec.outcome = "ok" THEN Len(rec.engine)
                                      ELSE Len(rec.engine) - 1, T)]
    /\ LET strRet == rec.op = "analyze" /\ IsStr(rec.docs) /\ rec.outcome = "ok"
           T0 == rec.docs.items[1]
       IN  /\ strOk' = IF strRet THEN [strOk EXCEPT ![T0] = @ + 1] ELSE strOk
           /\ seen' = IF strRet
                      THEN [seen EXCEPT ![rec.sit][T0] = @ \cup {rec.ret}]
                      ELSE seen

\* lines 36-42
analyze(docs, lo, failAt) ==
    /\ phase = "ready"
    /\ nCalls < MaxCalls
    /\ LET ld == EnsureLoaded(nlp, lo)
           r == IF ld.raised THEN LoadRaised ELSE RunAnalyze(docs, failAt)
       IN  Account(ld, CallRecord("analyze", docs, ld, r))
    /\ UNCHANGED <<CACHE, LAZY, phase, cache_dir, entries, run, fresh, dir0,
                   pc, cur>>

\* lines 27-34
tokenize(docs, lo, failAt) ==
    /\ phase = "ready"
    /\ nCalls < MaxCalls
    /\ LET ld == EnsureLoaded(nlp_small, lo)
           r == IF ld.raised THEN LoadRaised ELSE RunTokenize(docs, failAt)
       IN  Account(ld, CallRecord("tokenize", docs, ld, r))
    /\ UNCHANGED <<CACHE, LAZY, phase, cache_dir, entries, run, fresh, dir0,
                   pc, cur>>

(***************************************************************************)
(* The process.                                                            *)
(***************************************************************************)
\* what can stand on disk before a process starts: without the directory
\* there are no entry files
Disks ==
    {d \in [dir : {"absent", "dir"}, entries : [Texts -> EntryStates]] :
        d.dir = "absent" => \A T \in Texts : d.entries[T] = "absent"}

\* lines 1-25: the first process imports the module
Init ==
    \E c \in EnvValues, l \in EnvValues, disk \in Disks :
      \E lo \in ImportLoadChoices(l) :
        LET m == ModuleBody(c, l, lo, disk.dir)
        IN  /\ CACHE = m.CACHE
            /\ LAZY = m.LAZY
            /\ phase = m.phase
            /\ nlp = m.nlp
            /\ nlp_small = m.nlp_small
            /\ cache_dir = m.cache_dir
            /\ entries = disk.entries
            /\ loadCalls = m.loadCalls
            /\ loadsDone = m.loadsDone
            /\ loadFails = m.loadFails
            /\ fresh = \A T \in Texts : disk.entries[T] = "absent"
            /\ dir0 = disk.dir
            /\ nCalls = 0
            /\ last = NoCall
            /\ strOk = [T \in Texts |-> 0]
            /\ engineOk = [T \in Texts |-> 0]
            /\ pc = [t \in Threads |-> "idle"]
            /\ cur = [t \in Threads |-> NoCur]
            /\ run = 1
            /\ seen = [x \in Situations |-> [T \in Texts |-> {}]]

\* lines 1-25: the process ends and a new one imports the module, in the
\* same working directory
Startup(c, l, lo) ==
    /\ Idle
    /\ run < MaxRuns
    /\ LET m == ModuleBody(c, l, lo, cache_dir)
       IN  /\ CACHE' = m.CACHE
           /\ LAZY' = m.LAZY
           /\ phase' = m.phase
           /\ nlp' = m.nlp
           /\ nlp_small' = m.nlp_small
           /\ cache_dir' = m.cache_dir
           /\ loadCalls' = m.loadCalls
           /\ loadsDone' = m.loadsDone
           /\ loadFails' = m.loadFails
    /\ fresh' = \A T \in Texts : entries[T] = "absent"
    /\ dir0' = cache_dir
    /\ nCalls' = 0
    /\ last' = NoCall
    /\ strOk' = [T \in Texts |-> 0]
    /\ engineOk' = [T \in Texts |-> 0]
    /\ run' = run + 1
    /\ UNCHANGED <<entries, seen, pc, cur>>

\* the environment: garbage bytes are written into the entry file of T
Corrupt(T) ==
    /\ cache_dir = "dir"
    /\ entries[T] # "garbage"
    /\ entries' = [entries EXCEPT ![T] = "garbage"]
    /\ UNCHANGED <<CACHE, LAZY, phase, nlp, nlp_small, cache_dir, run, nCalls,
                   loadCalls, loadsDone, loadFails, last, strOk, engineOk,
                   fresh, dir0, seen, pc, cur>>

\* the environment: the cache directory is removed with its entry files
RemoveDir ==
    /\ cache_dir = "dir"
    /\ cache_dir' = "absent"
    /\ dir0' = "absent"
    /\ entries' = [T \in Texts |-> "absent"]
    /\ UNCHANGED <<CACHE, LAZY, phase, nlp, nlp_small, run, nCalls,
                   loadCalls, loadsDone, loadFails, last, strOk, engineOk,
                   fresh, seen, pc, cur>>

Next ==
    \/ \E T \in Texts : Corrupt(T)
    \/ RemoveDir
    \/ \E c \in EnvValues, l \in EnvValues :
            \E lo \in ImportLoadChoices(l) : Startup(c, l, lo)
    \/ \E docs \in Args, lo \in LoadChoices(nlp) :
            \E failAt \in 0..Len(docs.items) : analyze(docs, lo, failAt)
    \/ \E docs \in Args, lo \in LoadChoices(nlp_small) :
            \E failAt \in 0..Len(docs.items) : tokenize(docs, lo, failAt)

Spec == Init /\ [][Next]_vars

(***************************************************************************)
(* Threads.  The module takes no lock: a thread can be switched out        *)
(* between the guard of a call and load_model, between the two loads of    *)
(* load_model, and between load_model and the engine.                      *)
(***************************************************************************)
\* the handle a call's guard reads: nlp in analyze, nlp_small in tokenize
GuardHandle(op) == IF op = "analyze" THEN nlp ELSE nlp_small

\* a call ends: its record, and the engine invocations it made
Finish(t, rec) ==
    /\ pc' = [pc EXCEPT ![t] = "idle"]
    /\ cur' = [cur EXCEPT ![t] = NoCur]
    /\ last' = rec
    /\ engineOk' =
            [T \in Texts |->
                engineOk[T] + CountIn(rec.engine,
                                      IF rec.outcome = "ok" THEN Len(rec.engine)
                                      ELSE Len(rec.engine) - 1, T)]
    /\ LET strRet == rec.op = "analyze" /\ IsStr(rec.docs) /\ rec.outcome = "ok"
           T0 == rec.docs.items[1]
       IN  /\ strOk' = IF strRet THEN [strOk EXCEPT ![T0] = @ + 1] ELSE strOk
           /\ seen' = IF strRet
                      THEN [seen EXCEPT ![rec.sit][T0] = @ \cup {rec.ret}]
                      ELSE seen

\* lines 27 and 36: a thread calls tokenize or analyze
TCall(t, op, docs) ==
    /\ phase = "ready"
    /\ nCalls < MaxCalls
    /\ pc[t] = "idle"
    /\ pc' = [pc EXCEPT ![t] = "guard"]
    /\ cur' = [cur EXCEPT ![t] = [op |-> op, docs |-> docs, id |-> 0]]
    /\ nCalls' = nCalls + 1
    /\ UNCHANGED <<CACHE, LAZY, phase, nlp, nlp_small, cache_dir, entries, run,
                   loadCalls, loadsDone, loadFails, last, strOk, engineOk,
                   fresh, dir0, seen>>

\* lines 29-30 and 37-38: the guard is true and the thread enters load_model
TEnterLoad(t) ==
    /\ pc[t] = "guard"
    /\ NeedsLoad(GuardHandle(cur[t].op))
    /\ pc' = [pc EXCEPT ![t] = "load_lg"]
    /\ cur' = [cur EXCEPT ![t].id = loadCalls + 1]
    /\ loadCalls' = loadCalls + 1
    /\ UNCHANGED <<CACHE, LAZY, phase, nlp, nlp_small, cache_dir, entries, run,
                   nCalls, loadsDone, loadFails, last, strOk, engineOk, fresh,
                   dir0, seen>>

\* lines 29 and 37: the guard is false
TSkipLoad(t) ==
    /\ pc[t] = "guard"
    /\ ~NeedsLoad(GuardHandle(cur[t].op))
    /\ pc' = [pc EXCEPT ![t] = "run"]
    /\ UNCHANGED <<CACHE, LAZY, phase, nlp, nlp_small, cache_dir, entries, run,
                   nCalls, loadCalls, loadsDone, loadFails, last, strOk,
                   engineOk, fresh, dir0, seen, cur>>

\* line 15, or the exception it raises leaving the call
TLoadLg(t, ok) ==
    /\ pc[t] = "load_lg"
    /\ nlp' = IF ok THEN Handle("ja_core_news_lg", cur[t].id) ELSE nlp
    /\ UNCHANGED nlp_small
    /\ IF ok
       THEN /\ pc' = [pc EXCEPT ![t] = "load_sm"]
            /\ UNCHANGED <<loadFails, last, strOk, engineOk, seen, cur>>
       ELSE /\ loadFails' = loadFails + 1
            /\ Finish(t, CallRecord(cur[t].op, cur[t].docs,
                                    [loads |-> 1, nlp |-> nlp, nlp_small |-> nlp_small],
                                    LoadRaised))
    /\ UNCHANGED <<CACHE, LAZY, phase, cache_dir, entries, run, nCalls,
                   loadCalls, loadsDone, fresh, dir0>>

\* line 16, or the exception it raises leaving the call
TLoadSm(t, ok) ==
    /\ pc[t] = "load_sm"
    /\ IF ok
       THEN /\ nlp_small' = Handle("ja_core_news_sm", cur[t].id)
            /\ loadsDone' = loadsDone + 1
            /\ pc' = [pc EXCEPT ![t] = "run"]
            /\ UNCHANGED <<loadFails, last, strOk, engineOk, seen, cur>>
       ELSE /\ loadFails' = loadFails + 1
            /\ Finish(t, CallRecord(cur[t].op, cur[t].docs,
                                    [loads |-> 1, nlp |-> nlp, nlp_small |-> nlp_small],
                                    LoadRaised))
            /\ UNCHANGED <<nlp_small, loadsDone>>
    /\ UNCHANGED <<CACHE, LAZY, phase, nlp, cache_dir, entries, run, nCalls,
                   loadCalls, fresh, dir0>>

\* lines 31-34 and 39-42: the engine on docs, and the return
TRun(t, failAt) ==
    /\ pc[t] = "run"
    /\ LET r == IF cur[t].op = "analyze" THEN RunAnalyze(cur[t].docs, failAt)
                ELSE RunTokenize(cur[t].docs, failAt)
       IN  Finish(t, CallRecord(cur[t].op, cur[t].docs,
                                [loads |-> IF cur[t].id = 0 THEN 0 ELSE 1,
                                 nlp |-> nlp, nlp_small |-> nlp_small], r))
    /\ UNCHANGED <<CACHE, LAZY, phase, nlp, nlp_small, cache_dir, entries, run,
                   nCalls, loadCalls, loadsDone, loadFails, fresh, dir0>>

NextThreads ==
    \E t \in Threads :
        \/ \E op \in {"analyze", "tokenize"}, docs \in Args : TCall(t, op, docs)
        \/ TEnterLoad(t)
        \/ TSkipLoad(t)
        \/ \E ok \in BOOLEAN : TLoadLg(t, ok)
        \/ \E ok \in BOOLEAN : TLoadSm(t, ok)
        \/ \E failAt \in 0..Len(cur[t].docs.items) : TRun(t, failAt)

SpecThreads == Init /\ [][NextThreads]_vars

(***************************************************************************)
(* The claims.                                                             *)
(***************************************************************************)
\* the text of the most recent call, when it was given one string
LastText == last.docs.items[1]
\* the most recent call was analyze on one string
LastIsAnalyzeStr == last.op = "analyze" /\ IsStr(last.docs)
\* this step is a call made to the running process
CallStep == nCalls' = nCalls + 1 /\ run' = run

\* C1: with the cache enabled and a fresh cache directory, the second of two
\* successive calls analyze(T) is served from the cache without invoking the
\* engine, so the two calls invoke the engine on T exactly once in total.
C1_SecondCallServedFromCache ==
    (CACHE /\ fresh /\ LastIsAnalyzeStr /\ last.outcome = "ok"
        /\ last.prev = "ok"
        /\ entries[LastText] = "absent" /\ strOk[LastText] = 2)
    => (last.engine = <<>> /\ engineOk[LastText] = 1)

\* C2: for every text T, every result analyze(T) has returned is the same,
\* whether the cache was disabled or enabled, on the first call for T and on
\* every later one.
C2_CacheNeverChangesResult ==
    \A T \in Texts : Cardinality(UNION {seen[x][T] : x \in Situations}) <= 1

\* C2, its case: analyze(T) has returned with the cache disabled, with it
\* enabled on a first call and with it enabled on a later call.
C2_Witness ==
    \E T \in Texts :
        seen["off"][T] # {} /\ seen["cold"][T] # {} /\ seen["warm"][T] # {}

\* C3: in lazy mode load_model is not invoked at import and the first call
\* to analyze or tokenize invokes it; in eager mode load_model has been
\* invoked and has returned before any call can be made.
C3_LazyVsEager ==
    /\ (LAZY /\ nCalls = 0) => (loadCalls = 0 /\ nlp = None /\ nlp_small = None)
    /\ (LAZY /\ nCalls = 1) => (loadCalls = 1 /\ last.loads = 1)
    /\ (LAZY /\ nCalls >= 1) => loadCalls >= 1
    /\ (~LAZY /\ phase = "ready") =>
            /\ loadCalls = 1 /\ loadsDone = 1
            /\ nlp = Handle("ja_core_news_lg", 1)
            /\ nlp_small = Handle("ja_core_news_sm", 1)
    /\ (~LAZY /\ phase # "ready") => nCalls = 0

\* C3, its case: the first call made in lazy mode has invoked load_model.
C3_Witness == LAZY /\ nCalls = 1 /\ loadCalls = 1 /\ last.op # "none"

\* C4: in one thread load_model returns at most once per process, and once
\* it has returned no later call invokes it or changes nlp or nlp_small.
C4_LoadedAtMostOnce ==
    /\ [](loadsDone <= 1)
    /\ [][(run' = run /\ loadsDone >= 1) =>
            (loadCalls' = loadCalls /\ loadsDone' = loadsDone
                /\ nlp' = nlp /\ nlp_small' = nlp_small)]_vars

\* C4, its case: a call made after the load of a lazy process returned.
C4_Witness == LAZY /\ loadsDone = 1 /\ nCalls = 2 /\ last.loads = 0

\* C5: no lock stands around the load guard: a thread whose guard reads an
\* unset handle can always enter load_model, also while another thread is
\* inside it, so the load can run twice.
C5_GuardTakesNoLock ==
    \A t \in Threads :
        (pc[t] = "guard" /\ GuardHandle(cur[t].op) = None) => ENABLED TEnterLoad(t)

\* C5, its case: two threads both read the handle as unset and both ran
\* load_model to its end.
C5_Witness == LAZY /\ loadCalls = 2 /\ loadsDone = 2 /\ loadFails = 0

\* C6: once load_model has raised, no later call of the same process
\* invokes it again.
C6_NoRetryAfterLoadFailure ==
    [][(run' = run /\ loadFails >= 1) => loadCalls' = loadCalls]_vars

\* C7: when the engine raises on T in analyze(T), the call returns no
\* result, has invoked the engine once, leaves the cache directory and the
\* entry files as they were and leaves loaded handles as they were; the
\* next analyze(T) invokes the engine again.
C7_EngineFailurePropagates ==
    [][/\ (CallStep /\ last'.op = "analyze" /\ IsStr(last'.docs)
            /\ last'.outcome = "AnalysisError") =>
                /\ last'.ret = <<>>
                /\ last'.engine = last'.docs.items
                /\ entries' = entries /\ cache_dir' = cache_dir
                /\ nlp' # None
                /\ nlp # None => (nlp' = nlp /\ nlp_small' = nlp_small)
                /\ loadsDone' >= loadsDone
       /\ (CallStep /\ LastIsAnalyzeStr /\ last.outcome = "AnalysisError"
            /\ last'.op = "analyze" /\ last'.docs = last.docs) =>
                last'.engine = last'.docs.items]_vars

\* C7, its case: analyze(T) after an analyze(T) on which the engine raised.
C7_Witness ==
    /\ LastIsAnalyzeStr /\ last.outcome = "ok"
    /\ last.prev = "AnalysisError"
    /\ last.engine = <<LastText>>
    /\ CACHE /\ last.sit = "cold"

\* C8: with the cache enabled and garbage in the entry file of T,
\* analyze(T) fails only if the load or the engine fails: it invokes the
\* engine on T and returns what a cold cache gives.
C8_GarbageEntryFallsThrough ==
    (LastIsAnalyzeStr /\ last.sit = "garbage") =>
        /\ last.outcome \in {"ok", "AnalysisError", "ModelLoadError"}
        /\ last.outcome # "ModelLoadError" => last.engine = <<LastText>>
        /\ last.outcome = "ok" => seen["cold"][LastText] \subseteq {last.ret}

\* C8, its case: analyze(T) returned with a cold cache, then with garbage
\* in the entry file of T.
C8_Witness ==
    /\ LastIsAnalyzeStr /\ last.sit = "garbage" /\ last.outcome = "ok"
    /\ seen["cold"][LastText] # {}

\* C9: with the cache disabled the import and the calls leave the cache
\* directory and the entry files as they were, and every analyze call that
\* gets past the load invokes the engine on what it was given.
C9_DisabledCacheUntouched ==
    /\ [](~CACHE => cache_dir = dir0)
    /\ [][(~CACHE' /\ (CallStep \/ run' # run)) =>
            /\ entries' = entries
            /\ cache_dir' = cache_dir
            /\ (CallStep /\ last'.op = "analyze") =>
                    /\ last'.outcome = "ok" => last'.engine = last'.docs.items
                    /\ last'.outcome = "AnalysisError" => last'.engine # <<>>]_vars

\* C9, its case: a process with the cache disabled and no cache directory
\* has served two analyze calls.
C9_Witness ==
    /\ ~CACHE /\ cache_dir = "absent" /\ nCalls = 2
    /\ LastIsAnalyzeStr /\ last.outcome = "ok" /\ engineOk[LastText] = 2

\* what analyze returns for the text T: four sequences of one length n,
\* every head index in 0..n-1, the root of the parse at its own index
Shape(r, T) ==
    /\ Len(r) = 4
    /\ \A j \in 2..4 : Len(r[j]) = Len(r[1])
    /\ \A i \in 1..Len(r[4]) : r[4][i] \in 0..(Len(r[1]) - 1)
    /\ Len(r[1]) = Len(FullDoc(T))
    /\ \A i \in 1..Len(r[4]) : FullDoc(T)[i].head = i => r[4][i] = i - 1

\* C10: every result analyze returns is four parallel sequences of one
\* length n with every head index in [0, n) and the root at its own index;
\* in a batch, each result by its own token sequence.
C10_ResultShape ==
    (last.op = "analyze" /\ last.outcome = "ok") =>
        IF IsStr(last.docs) THEN Shape(last.ret, LastText)
        ELSE /\ Len(last.ret) = Len(last.docs.items)
             /\ \A j \in 1..Len(last.ret) : Shape(last.ret[j], last.docs.items[j])

\* C10, its case: a batch of two texts of four tokens each has returned.
C10_Witness ==
    /\ last.op = "analyze" /\ last.outcome = "ok" /\ ~IsStr(last.docs)
    /\ Len(last.docs.items) = 2
    /\ \A j \in 1..2 : Len(last.ret[j][1]) = 4

\* C11: for a list of texts analyze returns a list of the same length whose
\* i-th element is what analyze returns for the i-th text given alone; for
\* one string it returns one result, four sequences of the text's tokens,
\* and not a list of results.
C11_BatchMatchesSingle ==
    (last.op = "analyze" /\ last.outcome = "ok") =>
        IF IsStr(last.docs)
        THEN /\ Len(last.ret) = 4
             /\ \A j \in 1..4 : Len(last.ret[j]) = Len(FullDoc(LastText))
             /\ last.ret \in seen[last.sit][LastText]
        ELSE /\ Len(last.ret) = Len(last.docs.items)
             /\ \A j \in 1..Len(last.ret) : \A x \in Situations :
                    seen[x][last.docs.items[j]] \subseteq {last.ret[j]}

\* C11, its case: a list of two different texts has been analyzed after
\* each of them was analyzed alone.
C11_Witness ==
    /\ last.op = "analyze" /\ last.outcome = "ok" /\ ~IsStr(last.docs)
    /\ Len(last.docs.items) = 2
    /\ last.docs.items[1] # last.docs.items[2]
    /\ \A j \in 1..2 : \E x \in Situations : seen[x][last.docs.items[j]] # {}

\* C12: whether the cache is enabled or not, a tokenize call leaves the
\* cache directory and the entry files as they were, never invokes the full
\* engine, and invokes the small engine on every text it returns tokens for.
C12_TokenizeIgnoresCache ==
    [][(CallStep /\ last'.op = "tokenize") =>
            /\ entries' = entries /\ cache_dir' = cache_dir
            /\ last'.engine = <<>> /\ engineOk' = engineOk
            /\ seen' = seen /\ strOk' = strOk
            /\ last'.outcome \in {"ok", "AnalysisError", "ModelLoadError"}
            /\ last'.outcome = "ok" => last'.small = last'.docs.items
            /\ last'.outcome = "AnalysisError" => last'.small # <<>>]_vars

\* C12, its case: with the cache enabled and an entry file on disk, the
\* same tokenize call has returned twice in a row.
C12_Witness ==
    /\ CACHE /\ last.op = "tokenize" /\ last.outcome = "ok" /\ last.prev = "ok"
    /\ last.small # <<>>
    /\ \E T \in Texts : entries[T] = "garbage"

\* C13: in one thread, after failed loads too, an engine is never called
\* through an unset handle: a call of analyze that gets to the engine calls
\* it through an nlp that a run of load_model assigned, and a call of
\* tokenize through an nlp_small that a run of load_model assigned.
C13_EngineNeverUnset ==
    (last.op \in {"analyze", "tokenize"} /\ last.outcome # "ModelLoadError") =>
        /\ last.via # None /\ last.via # Unbound
        /\ last.via.model =
                (IF last.op = "analyze" THEN "ja_core_news_lg" ELSE "ja_core_news_sm")
        /\ last.via.id \in 1..loadCalls

\* C13, its case: tokenize got to the small engine in a process in which a
\* run of load_model had raised after it assigned nlp.
C13_Witness ==
    /\ last.op = "tokenize" /\ last.outcome = "ok" /\ last.small # <<>>
    /\ loadFails >= 1 /\ last.loads = 1
    /\ nlp.id = 2 /\ nlp_small.id = 2

\* C14: with the cache enabled the import leaves the cache directory
\* present, whether it was there before or not; where it was there, the
\* import does not fail on it and keeps its entry files; and the directory
\* is made at import only: no call of analyze or tokenize makes it.
C14_CacheDirMadeAtImport ==
    /\ CACHE => cache_dir = "dir"
    /\ [][(run' # run /\ CACHE') =>
            /\ cache_dir' = "dir"
            /\ entries' = entries
            /\ phase' = "dead" => loadFails' = 1]_vars
    /\ [][CallStep => (cache_dir' = cache_dir /\ entries' = entries)]_vars

\* C14, its case: a process with the cache enabled was started on a cache
\* directory that was there with an entry file in it; the directory was
\* then removed and a call made.
C14_Witness ==
    /\ CACHE /\ run = 2 /\ fresh = FALSE
    /\ cache_dir = "absent" /\ last.op # "none"

\* C15: between calls the two engine handles are set together: the full
\* engine handle is unset exactly when the small engine handle is unset, so
\* the guard of analyze and the guard of tokenize agree on whether a load
\* is needed.
C15_HandlesSetTogether ==
    (phase = "ready" /\ pc = [t \in Threads |-> "idle"]) =>
        ((nlp = None) <=> (nlp_small = None))

====
